---------------------------- MODULE Spec2Model ----------------------------
(***************************************************************************)
(* A model of app.py, the LINE calorie bot: the webhook handler            *)
(* handle_message (profile lookup, usage log, message router, quiz flows,  *)
(* reply), the quiz-progress records kept in the data store, and the       *)
(* daily summary over the message log.                                     *)
(*                                                                         *)
(* A text is a sequence of characters (one-character strings).  Every call *)
(* to the data store or to the LINE API is one atomic step of a handler;   *)
(* handlers of different webhook requests interleave between such steps    *)
(* (the web server handles requests in threads).                           *)
(***************************************************************************)
EXTENDS Naturals, Sequences, FiniteSets

(***************************************************************************)
(* Bounds of the model.                                                    *)
(***************************************************************************)
MaxLen == 2        \* length of the free part of an inbound text
MaxEvents == 2     \* webhook events delivered in one behaviour
MaxQuiz == 2       \* quiz ids the quiz bank may hold initially
MaxLogs == 5       \* log entries initially in the store (summary model)

(***************************************************************************)
(* Texts and the string operations the router uses.                        *)
(***************************************************************************)
\* A character outside ASCII is written by its reading: "ku" is the katakana
\* KU, "sup2" the superscript two (U+00B2), "ra" the katakana RA.
QuizCmd == <<"#", "ku", "i", "zu">>                  \* the quiz command
DiaryCmd == <<"#", "kai", "hatsu", "nichi", "ki">>   \* the diary command
CalorieCmd == <<"#", "ka", "ro", "ri", "-">>         \* the calorie command
ArticlePrefix == <<"#", "ki", "ji">>                 \* the article prefix

\* str.upper() on the characters of the model's alphabet.
UpperChar(c) ==
    CASE c = "a" -> "A"
      [] c = "b" -> "B"
      [] c = "c" -> "C"
      [] OTHER -> c

Upper(s) == [i \in 1..Len(s) |-> UpperChar(s[i])]

\* Characters with the Unicode property Numeric_Type=Digit or Decimal:
\* str.isdigit() accepts them all.
DigitChars == {"1", "2", "sup2"}

\* Characters int() accepts as decimal digits: the superscript two is a
\* digit for str.isdigit() and no decimal digit for int().
DecimalChars == {"1", "2"}

IsDigit(s) == Len(s) > 0 /\ \A i \in 1..Len(s) : s[i] \in DigitChars

StartsWith(s, p) == Len(s) >= Len(p) /\ SubSeq(s, 1, Len(p)) = p

\* str.replace(p, ""): every non-overlapping occurrence of p, left to right.
RECURSIVE Remove(_, _)
Remove(s, p) ==
    IF Len(s) = 0 THEN <<>>
    ELSE IF StartsWith(s, p) THEN Remove(SubSeq(s, Len(p) + 1, Len(s)), p)
    ELSE <<Head(s)>> \o Remove(Tail(s), p)

\* int() strips surrounding whitespace before it parses.
RECURSIVE StripLeft(_)
StripLeft(s) ==
    IF Len(s) > 0 /\ Head(s) = " " THEN StripLeft(Tail(s)) ELSE s

RECURSIVE StripRight(_)
StripRight(s) ==
    IF Len(s) > 0 /\ s[Len(s)] = " " THEN StripRight(SubSeq(s, 1, Len(s) - 1))
    ELSE s

Strip(s) == StripRight(StripLeft(s))

\* Whether int(s) returns (TRUE) or raises ValueError (FALSE).
IntParses(s) ==
    LET t == Strip(s)
    IN  Len(t) > 0 /\ \A i \in 1..Len(t) : t[i] \in DecimalChars

DigitValue(c) == IF c = "1" THEN 1 ELSE 2

RECURSIVE DecimalValue(_)
DecimalValue(t) ==
    IF Len(t) = 0 THEN 0
    ELSE 10 * DecimalValue(SubSeq(t, 1, Len(t) - 1)) + DigitValue(t[Len(t)])

\* The value of int(s), for a text int() accepts.
IntValue(s) == DecimalValue(Strip(s))

(***************************************************************************)
(* The message router: the if/elif chain of handle_message.                *)
(***************************************************************************)
\* Route with the answer compared as typed, without upper().
RouteCaseSensitive(message_text) ==
    IF message_text = QuizCmd THEN "quiz"
    ELSE IF message_text \in {<<"A">>, <<"B">>, <<"C">>} THEN "answer"
    ELSE IF message_text = DiaryCmd THEN "diary"
    ELSE IF message_text = CalorieCmd THEN "prompt"
    ELSE IF StartsWith(message_text, ArticlePrefix) THEN "article"
    ELSE IF IsDigit(message_text) THEN "number"
    ELSE "calorie"

Route(message_text) ==
    IF message_text = QuizCmd THEN "quiz"
    ELSE IF Upper(message_text) \in {<<"A">>, <<"B">>, <<"C">>} THEN "answer"
    ELSE IF message_text = DiaryCmd THEN "diary"
    ELSE IF message_text = CalorieCmd THEN "prompt"
    ELSE IF StartsWith(message_text, ArticlePrefix) THEN "article"
    ELSE IF IsDigit(message_text) THEN "number"
    ELSE "calorie"

(***************************************************************************)
(* The state.                                                              *)
(***************************************************************************)
VARIABLES
    inbox,           \* webhook events not yet handed to a handler
    threads,         \* each handler thread: its position and its locals
    message_logs,    \* table message_logs, in insertion order
    quiz_progress,   \* table quiz_progress: user_id -> row, or NoRow
    quizzes,         \* table quizzes: id -> row
    next_quiz_id,    \* the serial the store gives the next inserted quiz
    today,           \* the current date (JST), as a day number
    sent,            \* the replies sent through reply_message, in order
    pushed,          \* the message last pushed to the administrator
    ADMIN_USER_ID,   \* the environment variable: "" when it is not set
    history          \* per reply token: what the handler did with the event

vars == <<inbox, threads, message_logs, quiz_progress, quizzes, next_quiz_id,
          today, sent, pushed, ADMIN_USER_ID, history>>

Users == {"U1", "U2"}
Handlers == {"h1", "h2"}
Choices == {"A", "B", "C"}

\* The display name get_profile returns for a user.
DisplayName(user_id) == IF user_id = "U1" THEN "taro" ELSE "hana"

\* The ids of the articles in articles.json.
ArticleIds == {1}

NoRow == [exists |-> FALSE, current_quiz_id |-> 0, correct_count |-> 0,
          total_count |-> 0]

Row(q, c, t) == [exists |-> TRUE, current_quiz_id |-> q, correct_count |-> c,
                 total_count |-> t]

NoEvent == [token |-> 0, user_id |-> "", text |-> <<>>]

ReplyText(kind, ref, c, t) ==
    [kind |-> kind, ref |-> ref, correct_count |-> c, total_count |-> t]

NoText == ReplyText("", 0, 0, 0)

IdleThread ==
    [pc |-> "idle", event |-> NoEvent, user_name |-> "", quiz |-> 0,
     current_quiz_id |-> 0, is_correct |-> FALSE, progress |-> NoRow,
     reply_text |-> NoText, show_quiz_quick_reply |-> FALSE,
     show_answer_quick_reply |-> FALSE]

\* What is recorded of an event: how often it was logged, the branch of the
\* router it took, the exception that left handle_message, whether
\* handle_message has returned.
NewHistory(event) ==
    [event |-> event, logged |-> 0, flow |-> "", raised |-> "",
     returned |-> FALSE]

\* A handler's exception leaves handle_message: the thread is free again.
Abort(h, what) ==
    /\ threads' = [threads EXCEPT ![h] = IdleThread]
    /\ history' = [history EXCEPT ![threads[h].event.token] =
                       [@ EXCEPT !.raised = what, !.returned = TRUE]]

(***************************************************************************)
(* handle_message, one step per call to the LINE API or the data store.    *)
(***************************************************************************)
\* The free thread the server gives the next request (the threads are
\* interchangeable: the first free one stands for any).
FreeThread == IF threads["h1"].pc = "idle" THEN "h1" ELSE "h2"

\* handle_message starts: the webhook hands the next event to a free thread,
\* which looks the sender's profile up.
GetProfile(h) ==
    /\ h = FreeThread
    /\ threads[h].pc = "idle"
    /\ Len(inbox) > 0
    /\ threads' = [threads EXCEPT ![h] =
                       [IdleThread EXCEPT
                            !.pc = "add_log_entry",
                            !.event = Head(inbox),
                            !.user_name = DisplayName(Head(inbox).user_id)]]
    /\ inbox' = Tail(inbox)
    /\ UNCHANGED <<message_logs, quiz_progress, quizzes, next_quiz_id, today,
                   sent, pushed, ADMIN_USER_ID, history>>

\* get_profile raises (the user is unknown to the API, the network fails).
GetProfileRaises(h) ==
    /\ h = FreeThread
    /\ threads[h].pc = "idle"
    /\ Len(inbox) > 0
    /\ inbox' = Tail(inbox)
    /\ history' = [history EXCEPT ![Head(inbox).token] =
                       [@ EXCEPT !.raised = "external", !.returned = TRUE]]
    /\ UNCHANGED <<threads, message_logs, quiz_progress, quizzes,
                   next_quiz_id, today, sent, pushed, ADMIN_USER_ID>>

\* add_log_entry with the user's id stored as the name.
add_log_entry_swapped(user_name, user_id, message) ==
    message_logs' = Append(message_logs,
                           [user_id |-> user_id, user_name |-> user_id,
                            message |-> message, timestamp |-> today])

\* The store stamps the inserted row with the current time.
add_log_entry(user_name, user_id, message) ==
    message_logs' = Append(message_logs,
                           [user_id |-> user_id, user_name |-> user_name,
                            message |-> message, timestamp |-> today])

AddLogEntry(h) ==
    /\ threads[h].pc = "add_log_entry"
    /\ add_log_entry(threads[h].user_name, threads[h].event.user_id,
                     threads[h].event.text)
    /\ threads' = [threads EXCEPT ![h].pc = "route"]
    /\ history' = [history EXCEPT ![threads[h].event.token].logged = @ + 1]
    /\ UNCHANGED <<inbox, quiz_progress, quizzes, next_quiz_id, today, sent,
                   pushed, ADMIN_USER_ID>>

\* The data-store calls made outside a try block: each may raise out of
\* handle_message.
ExternalCalls ==
    {"add_log_entry", "get_random_quiz", "start_quiz",
     "check_answer", "get_quiz", "update_user_progress", "update",
     "check_answer_stats"}

Raises(h) ==
    /\ threads[h].pc \in ExternalCalls
    /\ Abort(h, "external")
    /\ UNCHANGED <<inbox, message_logs, quiz_progress, quizzes, next_quiz_id,
                   today, sent, pushed, ADMIN_USER_ID>>

\* get_calorie_info: the reply the language model gives, or the error text
\* when the call raises (the exception is caught inside the function).
get_calorie_info(llm) ==
    IF llm = "ok" THEN ReplyText("calorie", 0, 0, 0)
    ELSE ReplyText("llm_error", 0, 0, 0)

get_article_detail(article_id) ==
    IF article_id \in ArticleIds THEN ReplyText("article", article_id, 0, 0)
    ELSE NoText

get_article_list ==
    IF ArticleIds = {} THEN ReplyText("no_articles", 0, 0, 0)
    ELSE ReplyText("article_list", 0, 0, 0)

\* The branch "#kiji...": int() of the text without the prefix, in a try.
ArticleBranch(message_text) ==
    LET number == Remove(message_text, ArticlePrefix)
    IN  IF ~IntParses(number) THEN ReplyText("article_usage", 0, 0, 0)
        ELSE IF get_article_detail(IntValue(number)) # NoText
             THEN get_article_detail(IntValue(number))
        ELSE ReplyText("article_not_found", 0, 0, 0)

\* The branch of an all-digit text: the article of that number, or the
\* calorie lookup when there is none.  int() is called outside any try.
NumberBranch(message_text, llm) ==
    IF get_article_detail(IntValue(message_text)) # NoText
    THEN get_article_detail(IntValue(message_text))
    ELSE get_calorie_info(llm)

\* The if/elif chain: the flows that call the data store continue in steps
\* of their own, the others compute reply_text here.
Dispatch(h) ==
    /\ threads[h].pc = "route"
    /\ LET message_text == threads[h].event.text
           token == threads[h].event.token
           flow == Route(message_text)
       IN  \E llm \in {"ok", "raises"} :
             IF flow = "number" /\ ~IntParses(message_text)
             THEN /\ threads' = [threads EXCEPT ![h] = IdleThread]
                  /\ history' = [history EXCEPT ![token] =
                                     [@ EXCEPT !.flow = flow,
                                               !.raised = "ValueError",
                                               !.returned = TRUE]]
             ELSE /\ history' = [history EXCEPT ![token].flow = flow]
                  /\ threads' = [threads EXCEPT ![h] =
                       CASE flow = "quiz" ->
                              [@ EXCEPT !.pc = "get_random_quiz"]
                         [] flow = "answer" ->
                              [@ EXCEPT !.pc = "check_answer"]
                         [] flow = "diary" ->
                              [@ EXCEPT !.pc = "reply_message",
                                        !.reply_text = get_article_list]
                         [] flow = "prompt" ->
                              [@ EXCEPT !.pc = "reply_message",
                                        !.reply_text =
                                            ReplyText("calorie_prompt", 0, 0, 0)]
                         [] flow = "article" ->
                              [@ EXCEPT !.pc = "reply_message",
                                        !.reply_text =
                                            ArticleBranch(message_text)]
                         [] flow = "number" ->
                              [@ EXCEPT !.pc = "reply_message",
                                        !.reply_text =
                                            NumberBranch(message_text, llm)]
                         [] OTHER ->
                              [@ EXCEPT !.pc = "reply_message",
                                        !.reply_text = get_calorie_info(llm)]]
    /\ UNCHANGED <<inbox, message_logs, quiz_progress, quizzes, next_quiz_id,
                   today, sent, pushed, ADMIN_USER_ID>>

(***************************************************************************)
(* The quiz flows.                                                         *)
(***************************************************************************)
\* get_user_progress: the user's row; a user without one gets a fresh row.
\* The select and the insert are one step here: a second insert for the
\* same user either raises (step Raises) or adds an identical row.
get_user_progress(user_id) ==
    IF quiz_progress[user_id].exists THEN quiz_progress[user_id]
    ELSE Row(0, 0, 0)

\* update(...).eq('user_id', user_id): no row of that user, nothing updated.
UpdateProgress(user_id, row) ==
    IF quiz_progress[user_id].exists
    THEN [quiz_progress EXCEPT ![user_id] = row]
    ELSE quiz_progress

\* get_random_quiz: all quizzes are read; none: a quiz is generated; else
\* random.choice over all of them.
GetRandomQuiz(h) ==
    /\ threads[h].pc = "get_random_quiz"
    /\ IF DOMAIN quizzes = {}
       THEN threads' = [threads EXCEPT ![h].pc = "generate_quiz_with_ai"]
       ELSE \E id \in DOMAIN quizzes :
              threads' = [threads EXCEPT ![h].pc = "start_quiz",
                                         ![h].quiz = id]
    /\ UNCHANGED <<inbox, message_logs, quiz_progress, quizzes, next_quiz_id,
                   today, sent, pushed, ADMIN_USER_ID, history>>

\* start_quiz when get_random_quiz returned None; handle_message sets
\* show_answer_quick_reply whatever start_quiz returned.
NoQuiz(h) ==
    [threads EXCEPT ![h].pc = "reply_message",
                    ![h].reply_text = ReplyText("quiz_not_ready", 0, 0, 0),
                    ![h].show_answer_quick_reply = TRUE]

\* generate_quiz_with_ai: the model's answer is parsed and inserted; every
\* exception (the call, json.loads, the insert) is caught and gives None.
GenerateQuiz(h) ==
    /\ threads[h].pc = "generate_quiz_with_ai"
    /\ \/ /\ threads' = NoQuiz(h)
          /\ UNCHANGED <<quizzes, next_quiz_id>>
       \/ \E answer \in Choices :
            /\ quizzes' = [id \in DOMAIN quizzes \cup {next_quiz_id} |->
                             IF id = next_quiz_id
                             THEN [correct_answer |-> answer]
                             ELSE quizzes[id]]
            /\ next_quiz_id' = next_quiz_id + 1
            /\ threads' = [threads EXCEPT ![h].pc = "start_quiz",
                                          ![h].quiz = next_quiz_id]
    /\ UNCHANGED <<inbox, message_logs, quiz_progress, today, sent, pushed, ADMIN_USER_ID,
                   history>>

\* start_quiz: the update that saves the quiz id, then the question.
StartQuiz(h) ==
    /\ threads[h].pc = "start_quiz"
    /\ LET user_id == threads[h].event.user_id
       IN  quiz_progress' =
               UpdateProgress(user_id,
                   [quiz_progress[user_id] EXCEPT
                        !.current_quiz_id = threads[h].quiz])
    /\ threads' = [threads EXCEPT
                       ![h].pc = "reply_message",
                       ![h].reply_text =
                           ReplyText("quiz_question", threads[h].quiz, 0, 0),
                       ![h].show_answer_quick_reply = TRUE]
    /\ UNCHANGED <<inbox, message_logs, quizzes, next_quiz_id, today, sent,
                   pushed, ADMIN_USER_ID, history>>

\* CheckAnswer counting the attempt before it tests current_quiz_id.
CheckAnswerCountsAttempt(h) ==
    /\ threads[h].pc = "check_answer"
    /\ LET user_id == threads[h].event.user_id
           progress == get_user_progress(user_id)
       IN  /\ quiz_progress' =
                  [quiz_progress EXCEPT ![user_id] =
                       [progress EXCEPT !.total_count = @ + 1]]
           /\ IF progress.current_quiz_id = 0
              THEN threads' = [threads EXCEPT
                       ![h].pc = "reply_message",
                       ![h].reply_text = ReplyText("no_quiz_yet", 0, 0, 0),
                       ![h].show_quiz_quick_reply = FALSE]
              ELSE threads' = [threads EXCEPT
                       ![h].pc = "get_quiz",
                       ![h].current_quiz_id = progress.current_quiz_id]
    /\ UNCHANGED <<inbox, message_logs, quizzes, next_quiz_id, today, sent,
                   pushed, ADMIN_USER_ID, history>>

\* check_answer, up to the test of current_quiz_id.
CheckAnswer(h) ==
    /\ threads[h].pc = "check_answer"
    /\ LET user_id == threads[h].event.user_id
           progress == get_user_progress(user_id)
       IN  /\ quiz_progress' = [quiz_progress EXCEPT ![user_id] = progress]
           /\ IF progress.current_quiz_id = 0
              THEN threads' = [threads EXCEPT
                       ![h].pc = "reply_message",
                       ![h].reply_text = ReplyText("no_quiz_yet", 0, 0, 0),
                       ![h].show_quiz_quick_reply = FALSE]
              ELSE threads' = [threads EXCEPT
                       ![h].pc = "get_quiz",
                       ![h].current_quiz_id = progress.current_quiz_id]
    /\ UNCHANGED <<inbox, message_logs, quizzes, next_quiz_id, today, sent,
                   pushed, ADMIN_USER_ID, history>>

\* check_answer: get_quiz, and the comparison of the upper-cased answer.
GetQuiz(h) ==
    /\ threads[h].pc = "get_quiz"
    /\ LET quiz_id == threads[h].current_quiz_id
       IN  IF quiz_id \notin DOMAIN quizzes
           THEN threads' = [threads EXCEPT
                    ![h].pc = "reply_message",
                    ![h].reply_text = ReplyText("quiz_not_found", 0, 0, 0),
                    ![h].show_quiz_quick_reply = FALSE]
           ELSE threads' = [threads EXCEPT
                    ![h].pc = "update_user_progress",
                    ![h].quiz = quiz_id,
                    ![h].is_correct =
                        (Upper(threads[h].event.text) =
                             <<quizzes[quiz_id].correct_answer>>)]
    /\ UNCHANGED <<inbox, message_logs, quiz_progress, quizzes, next_quiz_id,
                   today, sent, pushed, ADMIN_USER_ID, history>>

\* update_user_progress: the read of the row.
UpdateUserProgress(h) ==
    /\ threads[h].pc = "update_user_progress"
    /\ LET user_id == threads[h].event.user_id
           progress == get_user_progress(user_id)
       IN  /\ quiz_progress' = [quiz_progress EXCEPT ![user_id] = progress]
           /\ threads' = [threads EXCEPT ![h].pc = "update",
                                         ![h].progress = progress]
    /\ UNCHANGED <<inbox, message_logs, quizzes, next_quiz_id, today, sent,
                   pushed, ADMIN_USER_ID, history>>

\* update_user_progress: the write of the counters computed from that read,
\* with current_quiz_id reset to 0.
Update(h) ==
    /\ threads[h].pc = "update"
    /\ LET progress == threads[h].progress
           new_correct == progress.correct_count
                              + (IF threads[h].is_correct THEN 1 ELSE 0)
           new_total == progress.total_count + 1
       IN  quiz_progress' =
               UpdateProgress(threads[h].event.user_id,
                              Row(0, new_correct, new_total))
    /\ threads' = [threads EXCEPT ![h].pc = "check_answer_stats"]
    /\ UNCHANGED <<inbox, message_logs, quizzes, next_quiz_id, today, sent,
                   pushed, ADMIN_USER_ID, history>>

\* check_answer: the row is read again for the statistics of the reply.
CheckAnswerStats(h) ==
    /\ threads[h].pc = "check_answer_stats"
    /\ LET user_id == threads[h].event.user_id
           progress == get_user_progress(user_id)
       IN  /\ quiz_progress' = [quiz_progress EXCEPT ![user_id] = progress]
           /\ threads' = [threads EXCEPT
                  ![h].pc = "reply_message",
                  ![h].reply_text =
                      ReplyText(IF threads[h].is_correct THEN "correct"
                                ELSE "wrong",
                                threads[h].quiz, progress.correct_count,
                                progress.total_count),
                  ![h].show_quiz_quick_reply = TRUE]
    /\ UNCHANGED <<inbox, message_logs, quizzes, next_quiz_id, today, sent,
                   pushed, ADMIN_USER_ID, history>>

\* The quick reply put on the message, from the two flags.
QuickReply(show_quiz_quick_reply, show_answer_quick_reply) ==
    IF show_quiz_quick_reply THEN "next_or_end"
    ELSE IF show_answer_quick_reply THEN "answers"
    ELSE "none"

ReplyMessage(h) ==
    /\ threads[h].pc = "reply_message"
    /\ sent' = Append(sent,
                      [reply_token |-> threads[h].event.token,
                       user_id |-> threads[h].event.user_id,
                       text |-> threads[h].reply_text,
                       quick_reply |->
                           QuickReply(threads[h].show_quiz_quick_reply,
                                      threads[h].show_answer_quick_reply)])
    /\ threads' = [threads EXCEPT ![h] = IdleThread]
    /\ history' = [history EXCEPT ![threads[h].event.token].returned = TRUE]
    /\ UNCHANGED <<inbox, message_logs, quiz_progress, quizzes, next_quiz_id,
                   today, pushed, ADMIN_USER_ID>>

(***************************************************************************)
(* The daily summary.                                                      *)
(***************************************************************************)
PopularLimit == 3

RECURSIVE Occurrences(_, _)
Occurrences(messages, msg) ==
    IF Len(messages) = 0 THEN 0
    ELSE (IF Head(messages) = msg THEN 1 ELSE 0)
           + Occurrences(Tail(messages), msg)

\* The keys of message_counts, in the order the dict received them.
RECURSIVE FirstSeen(_)
FirstSeen(messages) ==
    IF Len(messages) = 0 THEN <<>>
    ELSE LET before == FirstSeen(SubSeq(messages, 1, Len(messages) - 1))
             last == messages[Len(messages)]
         IN  IF \E i \in 1..Len(before) : before[i] = last THEN before
             ELSE Append(before, last)

\* message_counts.items()
MessageCounts(messages) ==
    [i \in 1..Len(FirstSeen(messages)) |->
        [message |-> FirstSeen(messages)[i],
         count |-> Occurrences(messages, FirstSeen(messages)[i])]]

\* The items left in the order of the dict.
Unsorted(items) == items

\* sorted(items, key=count, reverse=True): a stable sort, the largest count
\* first, items of equal count in their original order.
RECURSIVE SortedByCount(_)
SortedByCount(items) ==
    IF Len(items) = 0 THEN <<>>
    ELSE LET best == CHOOSE i \in 1..Len(items) :
                       /\ \A j \in 1..Len(items) :
                              items[j].count <= items[i].count
                       /\ \A j \in 1..(i - 1) :
                              items[j].count < items[i].count
         IN  <<items[best]>>
               \o SortedByCount(SubSeq(items, 1, best - 1)
                                  \o SubSeq(items, best + 1, Len(items)))

\* sorted(...)[:3]
Popular(items) ==
    SubSeq(SortedByCount(items), 1,
           IF Len(items) < PopularLimit THEN Len(items) ELSE PopularLimit)

\* select('*').gte('timestamp', today)
LogsSince(day) == SelectSeq(message_logs, LAMBDA entry : entry.timestamp >= day)

get_daily_summary ==
    LET logs == LogsSince(today)
        messages == [i \in 1..Len(logs) |-> logs[i].message]
    IN  IF Len(logs) = 0
        THEN [kind |-> "no_usage", total_count |-> 0, user_count |-> 0,
              popular |-> <<>>]
        ELSE [kind |-> "summary",
              total_count |-> Len(logs),
              user_count |->
                  Cardinality({logs[i].user_name : i \in 1..Len(logs)}),
              popular |-> Popular(MessageCounts(messages))]

\* send_daily_summary: nothing is pushed without ADMIN_USER_ID.
SendDailySummary ==
    /\ ADMIN_USER_ID # ""
    /\ pushed' = [to |-> ADMIN_USER_ID, text |-> get_daily_summary]
    /\ UNCHANGED <<inbox, threads, message_logs, quiz_progress, quizzes,
                   next_quiz_id, today, sent, ADMIN_USER_ID, history>>

(***************************************************************************)
(* Initial states and specifications.                                      *)
(***************************************************************************)
\* The correct answer of a quiz the bank holds initially.
StoredAnswer(id) ==
    IF id % 3 = 1 THEN "A" ELSE IF id % 3 = 2 THEN "B" ELSE "C"

\* The quiz bank: the quizzes 1..n, for an n up to MaxQuiz.
QuizBanks ==
    {[id \in 1..n |-> [correct_answer |-> StoredAnswer(id)]] :
        n \in 0..MaxQuiz}

\* The quiz-progress table before the first event: a user has no row, or a
\* row without a pending quiz, or a row whose pending quiz is quiz MaxQuiz,
\* which the bank holds or (a smaller bank) holds no longer.
ProgressTables ==
    [Users -> {NoRow, Row(0, 0, 0), Row(MaxQuiz, 0, 0)}]

NoPush == [to |-> "", text |-> [kind |-> "", total_count |-> 0,
                                user_count |-> 0, popular |-> <<>>]]

\* The sequences over S of length n.
SeqsOfLen(S, n) == [1..n -> S]

\* The texts of the quiz flows: the quiz command and an answer.
QuizTexts == {QuizCmd, <<"b">>}

\* The texts of the router: free texts of up to MaxLen characters, alone,
\* after a command and around the article prefix.
FreeChars == {"a", "B", "1", "2", "sup2", "ra", " "}

FreeTexts == UNION {SeqsOfLen(FreeChars, n) : n \in 1..MaxLen}

Texts ==
    {QuizCmd, DiaryCmd, CalorieCmd, ArticlePrefix}
      \cup FreeTexts
      \cup {ArticlePrefix \o t : t \in FreeTexts}
      \cup {ArticlePrefix \o t \o ArticlePrefix : t \in FreeTexts}
      \cup {c \o t : c \in {QuizCmd, DiaryCmd, CalorieCmd}, t \in FreeTexts}

\* Webhook deliveries: reply tokens are the positions in the sequence.
Deliveries(events) ==
    [i \in 1..Len(events) |->
        [token |-> i, user_id |-> events[i][1], text |-> events[i][2]]]

InitStore ==
    /\ quizzes \in QuizBanks
    /\ quiz_progress \in ProgressTables
    /\ next_quiz_id = MaxQuiz + 1
    /\ today = 1

InitHandlers ==
    /\ threads = [h \in Handlers |-> IdleThread]
    /\ sent = <<>>
    /\ pushed = NoPush
    /\ history = [token \in 1..Len(inbox) |-> NewHistory(inbox[token])]

\* The messages of the quiz flows: the first user asks for quizzes and
\* answers them, the second (who has no row yet) asks for quizzes.
QuizEvents == ({"U1"} \X QuizTexts) \cup {<<"U2", QuizCmd>>}

\* MaxEvents quiz messages, handled by concurrent handlers.
Init ==
    /\ inbox \in {Deliveries(events) : events \in [1..MaxEvents -> QuizEvents]}
    /\ message_logs = <<>>
    /\ ADMIN_USER_ID = "admin"
    /\ InitStore
    /\ quiz_progress["U2"] = NoRow
    /\ InitHandlers

\* One message of any text.
InitRoute ==
    /\ inbox \in {Deliveries(<<<<"U1", text>>>>) : text \in Texts}
    /\ message_logs = <<>>
    /\ ADMIN_USER_ID = "admin"
    /\ InitStore
    /\ quiz_progress["U2"] = NoRow
    /\ InitHandlers

Handle(h) ==
    \/ GetProfile(h)
    \/ GetProfileRaises(h)
    \/ AddLogEntry(h)
    \/ Raises(h)
    \/ Dispatch(h)
    \/ GetRandomQuiz(h)
    \/ GenerateQuiz(h)
    \/ StartQuiz(h)
    \/ CheckAnswer(h)
    \/ GetQuiz(h)
    \/ UpdateUserProgress(h)
    \/ Update(h)
    \/ CheckAnswerStats(h)
    \/ ReplyMessage(h)

Next == \E h \in Handlers : Handle(h)

Spec == Init /\ [][Next]_vars

SpecRoute == InitRoute /\ [][Next]_vars

\* The log of the summary model: up to MaxLogs entries, those of yesterday
\* (timestamp 0) before those of today (timestamp 1).
SummaryTexts == {QuizCmd, <<"A">>, <<"1">>, <<"ra">>}

LogEntries(day, users, texts) ==
    {[user_id |-> u, user_name |-> DisplayName(u), message |-> m,
      timestamp |-> day] : u \in users, m \in texts}

OldEntries == LogEntries(0, {"U1"}, {<<"ra">>})

NewEntries ==
    LogEntries(1, {"U1"}, SummaryTexts)
      \cup LogEntries(1, {"U2"}, {<<"A">>, <<"ra">>})

InitSummary ==
    /\ \E k \in 0..MaxLogs :
         \E n \in 0..(MaxLogs - k) :
            \E old \in SeqsOfLen(OldEntries, k) :
               \E new \in SeqsOfLen(NewEntries, n) :
                  message_logs = old \o new
    /\ ADMIN_USER_ID \in {"", "admin"}
    /\ inbox = <<>>
    /\ quizzes = [id \in {} |-> [correct_answer |-> "A"]]
    /\ quiz_progress = [u \in Users |-> NoRow]
    /\ next_quiz_id = 1
    /\ today = 1
    /\ InitHandlers

NextSummary == SendDailySummary

SpecSummary == InitSummary /\ [][NextSummary]_vars

(***************************************************************************)
(* Auxiliary definitions of the properties.                                *)
(***************************************************************************)
Tokens == DOMAIN history

\* The replies sent with a reply token.
RepliesTo(token) == {i \in 1..Len(sent) : sent[i].reply_token = token}

GradedKinds == {"correct", "wrong"}

GuidanceKinds == {"no_quiz_yet", "quiz_not_found"}

LookupKinds == {"calorie", "llm_error"}

\* The flows whose own condition a text meets, priority left aside.
FlowsMatching(text) ==
    {f \in {"quiz", "answer", "diary", "prompt", "article", "number"} :
        \/ f = "quiz" /\ text = QuizCmd
        \/ f = "answer" /\ Len(text) = 1
                        /\ text[1] \in {"A", "B", "C", "a", "b", "c"}
        \/ f = "diary" /\ text = DiaryCmd
        \/ f = "prompt" /\ text = CalorieCmd
        \/ f = "article" /\ Len(text) >= 3 /\ text[1] = "#"
                         /\ text[2] = "ki" /\ text[3] = "ji"
        \/ f = "number" /\ text # <<>>
                        /\ \A i \in 1..Len(text) : text[i] \in DigitChars}

(***************************************************************************)
(* C1.  The router puts every text into exactly one flow, by the text      *)
(* alone: the quiz command starts a quiz, a text whose upper case is A, B  *)
(* or C is an answer, the diary and calorie commands have their flows, a   *)
(* text with the article prefix is an article request, an all-digit text   *)
(* is an article request by number, and every other text is a calorie      *)
(* lookup.  No text meets the conditions of two flows, and the flow taken  *)
(* is the one whose condition the text meets.  A reply to an all-digit     *)
(* text is the article of that number when there is one and the calorie    *)
(* lookup otherwise; a reply to any other text is the calorie lookup.      *)
(***************************************************************************)
C1_RouterClassifies ==
    /\ \A token \in Tokens :
         LET text == history[token].event.text
             flow == history[token].flow
         IN  flow # "" =>
               /\ Cardinality(FlowsMatching(text)) <= 1
               /\ IF FlowsMatching(text) = {} THEN flow = "calorie"
                  ELSE FlowsMatching(text) = {flow}
    /\ \A i \in 1..Len(sent) :
         LET text == history[sent[i].reply_token].event.text
             flow == history[sent[i].reply_token].flow
             kind == sent[i].text.kind
         IN  /\ flow = "calorie" => kind \in LookupKinds
             /\ flow = "number" =>
                  IF DecimalValue(text) \in ArticleIds
                  THEN kind = "article" /\ sent[i].text.ref = DecimalValue(text)
                  ELSE kind \in LookupKinds

\* C1's case: an all-digit text that names no article took the number flow
\* and was answered by the calorie lookup.
C1_Witness ==
    \E token \in Tokens :
        /\ history[token].returned
        /\ history[token].event.text = <<"2", "1">>
        /\ history[token].flow = "number"
        /\ \E i \in RepliesTo(token) : sent[i].text.kind = "calorie"

(***************************************************************************)
(* C2.  Every event whose profile lookup and data-store calls succeed gets *)
(* exactly one reply, with its reply token, whichever flow is taken and    *)
(* also when the language-model call raises; no event gets two replies.    *)
(***************************************************************************)
C2_ExactlyOneReply ==
    \A token \in Tokens :
        /\ Cardinality(RepliesTo(token)) <= 1
        /\ (history[token].returned /\ history[token].raised # "external")
              => Cardinality(RepliesTo(token)) = 1

(***************************************************************************)
(* C3.  start_quiz saves the quiz it shows: when the step of start_quiz    *)
(* that writes current_quiz_id has run for a user, with or without a       *)
(* quiz_progress row before, the user's row holds the id of that quiz.     *)
(***************************************************************************)
C3_StartQuizSaves ==
    [][\A h \in Handlers :
         (threads[h].pc = "start_quiz" /\ threads'[h].pc = "reply_message")
           => LET user_id == threads[h].event.user_id
              IN  /\ quiz_progress'[user_id].exists
                  /\ quiz_progress'[user_id].current_quiz_id
                       = threads'[h].reply_text.ref]_vars

(***************************************************************************)
(* C4.  get_random_quiz gives a quiz the user has not answered yet: the    *)
(* quiz it picks for a user is none of those already graded for that user  *)
(* while the bank holds a quiz not yet graded for them.                    *)
(***************************************************************************)
Answered(user_id) ==
    {sent[i].text.ref :
        i \in {j \in 1..Len(sent) : /\ sent[j].user_id = user_id
                                    /\ sent[j].text.kind \in GradedKinds}}

C4_UnsolvedQuiz ==
    [][\A h \in Handlers :
         (threads[h].pc = "get_random_quiz" /\ threads'[h].pc = "start_quiz")
           => \/ threads'[h].quiz \notin Answered(threads[h].event.user_id)
              \/ DOMAIN quizzes \subseteq Answered(threads[h].event.user_id)]_vars

(***************************************************************************)
(* C5.  Every inbound message is logged exactly once, with the sender's    *)
(* id, display name and the text, before its flow is dispatched and before *)
(* its reply is sent.                                                      *)
(***************************************************************************)
LoggedTokens == {token \in Tokens : history[token].logged > 0}

C6_GradedOnce ==
    [][\A h \in Handlers :
         (threads[h].pc = "update" /\ threads'[h].pc = "check_answer_stats")
           => LET user_id == threads[h].event.user_id
                  before == quiz_progress[user_id]
                  after == quiz_progress'[user_id]
                  right == Upper(threads[h].event.text)
                             = <<quizzes[threads[h].quiz].correct_answer>>
              IN  /\ after.total_count = before.total_count + 1
                  /\ after.correct_count
                       = before.correct_count + (IF right THEN 1 ELSE 0)
                  /\ after.current_quiz_id = 0]_vars

(***************************************************************************)
(* C7.  An answer that cannot be graded changes no statistics: when the    *)
(* user's current_quiz_id is 0 (or the user has no row), or the quiz it    *)
(* names is not in the bank, check_answer leaves current_quiz_id,          *)
(* correct_count and total_count as they are and returns the guidance      *)
(* text, and the reply carries no quick reply.                             *)
(***************************************************************************)
SameStatistics(user_id) ==
    /\ quiz_progress'[user_id].current_quiz_id
         = quiz_progress[user_id].current_quiz_id
    /\ quiz_progress'[user_id].correct_count
         = quiz_progress[user_id].correct_count
    /\ quiz_progress'[user_id].total_count
         = quiz_progress[user_id].total_count

C7_UngradedAnswer ==
    /\ [][\A h \in Handlers :
            LET user_id == threads[h].event.user_id
            IN  /\ (/\ threads[h].pc = "check_answer"
                    /\ threads'[h].pc \in {"get_quiz", "reply_message"}
                    /\ quiz_progress[user_id].current_quiz_id = 0)
                     => /\ threads'[h].pc = "reply_message"
                        /\ threads'[h].reply_text.kind = "no_quiz_yet"
                        /\ SameStatistics(user_id)
                /\ (/\ threads[h].pc = "get_quiz"
                    /\ threads'[h].pc
                         \in {"update_user_progress", "reply_message"}
                    /\ threads[h].current_quiz_id \notin DOMAIN quizzes)
                     => /\ threads'[h].pc = "reply_message"
                        /\ threads'[h].reply_text.kind = "quiz_not_found"
                        /\ SameStatistics(user_id)
                /\ (/\ threads[h].pc = "reply_message"
                    /\ threads[h].reply_text.kind \in GuidanceKinds
                    /\ threads'[h].pc = "idle")
                     => /\ sent'[Len(sent')].quick_reply = "none"
                        /\ sent'[Len(sent')].text = threads[h].reply_text
                        /\ SameStatistics(user_id)]_vars
    /\ [](\A i \in 1..Len(sent) :
            sent[i].text.kind \in GuidanceKinds
               => sent[i].quick_reply = "none")

\* C7's case: an answer to a quiz that is no longer in the bank got the
\* guidance text without a quick reply, and the user's row is as it was.
C7_Witness ==
    \E i \in 1..Len(sent) :
        /\ sent[i].text.kind = "quiz_not_found"
        /\ sent[i].quick_reply = "none"
        /\ quiz_progress[sent[i].user_id] = Row(MaxQuiz, 0, 0)

(***************************************************************************)
(* C9.  The statistics stay consistent under concurrent handlers: when no  *)
(* handler is running and no call has raised, every user's record has      *)
(* 0 <= correct_count <= total_count and total_count is the number of      *)
(* graded replies sent to that user.                                       *)
(***************************************************************************)
GradedReplies(user_id) ==
    {i \in 1..Len(sent) : /\ sent[i].user_id = user_id
                          /\ sent[i].text.kind \in GradedKinds}

C9_ConsistentStatistics ==
    (/\ \A h \in Handlers : threads[h].pc = "idle"
     /\ \A token \in Tokens : history[token].raised = "")
       => \A user_id \in Users :
            /\ quiz_progress[user_id].correct_count
                 <= quiz_progress[user_id].total_count
            /\ quiz_progress[user_id].total_count
                 = Cardinality(GradedReplies(user_id))

(***************************************************************************)
(* C10.  The answer buttons A/B/C are on a reply only when the reply       *)
(* presents a quiz question; the reply sent when no quiz could be provided *)
(* carries no answer buttons.                                              *)
(***************************************************************************)
C10_AnswerButtons ==
    \A i \in 1..Len(sent) :
        sent[i].quick_reply = "answers" => sent[i].text.kind = "quiz_question"

(***************************************************************************)
(* C8.  get_daily_summary aggregates the log entries of today: without any *)
(* it gives the no-usage text; otherwise the usage count is the number of  *)
(* today's entries, the user count is the number of distinct user names    *)
(* among them, and the popular list holds at most 3 distinct messages, in  *)
(* non-increasing order of their counts, each with its exact count, and no *)
(* message left out occurs more often than a listed one.                   *)
(***************************************************************************)
TodaysEntries == {i \in 1..Len(message_logs) : message_logs[i].timestamp = today}

CountToday(message) ==
    Cardinality({i \in TodaysEntries : message_logs[i].message = message})

C8_DailySummary ==
    pushed # NoPush =>
      LET summary == pushed.text
          popular == summary.popular
          listed == {popular[i].message : i \in 1..Len(popular)}
      IN  IF TodaysEntries = {} THEN summary.kind = "no_usage"
          ELSE /\ summary.kind = "summary"
               /\ summary.total_count = Cardinality(TodaysEntries)
               /\ summary.user_count =
                    Cardinality({message_logs[i].user_name : i \in TodaysEntries})
               /\ Len(popular) <= 3
               /\ Cardinality(listed) = Len(popular)
               /\ \A i \in 1..Len(popular) :
                    /\ popular[i].count = CountToday(popular[i].message)
                    /\ popular[i].count > 0
                    /\ i > 1 => popular[i - 1].count >= popular[i].count
               /\ \A i \in TodaysEntries :
                    message_logs[i].message \notin listed
                      => \A j \in 1..Len(popular) :
                           CountToday(message_logs[i].message)
                              <= popular[j].count

\* C8's case: a summary over four distinct messages of today, one of them
\* twice and listed first though it came last, and one left out.
C8_Witness ==
    /\ pushed # NoPush
    /\ Len(pushed.text.popular) = 3
    /\ pushed.text.popular[1].count = 2
    /\ pushed.text.popular[1].message
         = message_logs[Len(message_logs)].message
    /\ pushed.text.user_count = 2
    /\ \E i \in TodaysEntries :
         \A j \in 1..3 :
            pushed.text.popular[j].message # message_logs[i].message

=============================================================================
